---- MODULE Spec2Model ----
(***************************************************************************)
(* A model of code_analysis.py: the CodeAnalysisServer session, the four   *)
(* tools (initialize_repository, get_repo_info, get_repo_structure,        *)
(* read_file), RepoStructureAnalyzer.get_structure and FileReader.         *)
(*                                                                         *)
(* The filesystem is a small tree of named nodes.  Its shape, the          *)
(* content of the root .gitignore and one "special" entry (a symbolic      *)
(* link, an entry named .git, an entry whose stat fails, ...) are chosen    *)
(* in Init; the tools are then called in any order with any input.         *)
(* Paths are sequences of path segments; ".." is a segment.                *)
(***************************************************************************)
EXTENDS Integers, Sequences, FiniteSets, TLC

VARIABLES
    fs,           \* the filesystem: node -> [kind, name, target, fault]
    repo_path,    \* CodeAnalysisServer.repo_path   (a node, or NoPath)
    analyzer,     \* CodeAnalysisServer.analyzer    (a record, set or not)
    file_reader,  \* CodeAnalysisServer.file_reader (a record, set or not)
    result        \* what the tool call being served returned (or raised), until
                  \* the adapter has sent it; Idle between two calls

vars == <<fs, repo_path, analyzer, file_reader, result>>

(***************************************************************************)
(* Bounds of the model.                                                    *)
(***************************************************************************)
\* RepoStructureAnalyzer.MAX_CHILDREN (100 in the source), scaled down so that
\* a directory of the model can hold more entries than the cap.
MAX_CHILDREN == 2
\* Longest caller-supplied sub_path / file_path, in segments.
MaxPathLen == 2
\* Largest explicit depth argument of get_repo_structure.
MaxDepthArg == 2
\* FileReader.MAX_LINES (1000 in the source), scaled down so that a file of the
\* model can hold fewer, as many and more lines than the limit.
MAX_LINES == 2

\* RepoStructureAnalyzer.MAX_DEPTH: the default of max_depth.
MAX_DEPTH == 3

(***************************************************************************)
(* The filesystem skeleton.                                                *)
(*   /              /repo            /out                                  *)
(*   /repo/a        /repo/b          /repo/c        /repo/.gitignore       *)
(*   /repo/a/x      /repo/a/y        /repo/a/z                             *)
(*   /repo/a/x/w    /repo/a/x/w/v                                          *)
(***************************************************************************)
FsRoot == "/"
Repo == "repo"
Out == "out"
NodeA == "a"
NodeB == "b"
NodeC == "c"
GitIgnoreNode == "gi"
NodeX == "x"
NodeY == "y"
NodeZ == "z"
NodeW == "w"
NodeV == "v"
\* The nodes, in the order os.scandir lists them.
NodeOrder ==
    <<FsRoot, Repo, Out, NodeA, NodeB, NodeC, GitIgnoreNode, NodeX, NodeY, NodeZ, NodeW, NodeV>>
Nodes == {NodeOrder[i] : i \in 1..Len(NodeOrder)}
IndexOf(n) == CHOOSE i \in 1..Len(NodeOrder) : NodeOrder[i] = n
\* No node: an unset Optional[Path].
NoPath == "<none>"

ParentOf(n) ==
    CASE n \in {FsRoot, Repo, Out} -> FsRoot
      [] n \in {NodeA, NodeB, NodeC, GitIgnoreNode} -> Repo
      [] n \in {NodeX, NodeY, NodeZ} -> NodeA
      [] n = NodeW -> NodeX
      [] n = NodeV -> NodeW
BaseName(n) == IF n = FsRoot THEN "" ELSE IF n = GitIgnoreNode THEN ".gitignore" ELSE n

\* FileReader.MAX_SIZE: 1 MiB.
MAX_SIZE == 1048576

\* st_size of a node (bytes); /repo/a/z is over FileReader.MAX_SIZE.
SizeOf(n) == IF n = NodeZ THEN MAX_SIZE + 1 ELSE 10 + IndexOf(n)
\* /repo/a/y does not decode as UTF-8.
IsBinary(n) == n = NodeY

Kinds == {"dir", "file", "symlink", "other", "absent"}
\* "oserror": every stat-family call on the entry raises OSError (EACCES, EIO,
\*            ENAMETOOLONG ...), which pathlib propagates.
\* "gone":    the entry is removed during the call, after its type has been
\*            tested: stat() raises FileNotFoundError.
\* "unlistable": a directory that can be examined but not listed.
Faults == {"none", "oserror", "gone", "unlistable"}

NoSpecial == [node |-> NoPath, type |-> "none"]

BaseKind(n, ka, kc, kx, gi) ==
    CASE n \in {FsRoot, Repo} -> "dir"
      [] n = Out -> "file"
      [] n = NodeA -> ka
      [] n = NodeB -> "file"
      [] n = NodeC -> kc
      [] n = GitIgnoreNode -> IF gi = "none" THEN "absent" ELSE "file"
      [] n = NodeX -> IF ka = "dir" THEN kx ELSE "absent"
      [] n \in {NodeY, NodeZ} -> IF ka = "dir" THEN "file" ELSE "absent"
      [] n = NodeW -> IF ka = "dir" /\ kx = "dir" THEN "dir" ELSE "absent"
      [] n = NodeV -> IF ka = "dir" /\ kx = "dir" THEN "file" ELSE "absent"

MkFS(ka, kc, kx, gi, sp) ==
    [n \in Nodes |->
        LET bk == BaseKind(n, ka, kc, kx, gi)
            hit == sp.node = n
        IN  [kind   |-> IF hit /\ sp.type \in {"symlink_out", "symlink_in"} THEN "symlink"
                        ELSE IF hit /\ sp.type = "other" THEN "other"
                        ELSE bk,
             name   |-> IF hit /\ sp.type = "dotgit" THEN ".git" ELSE BaseName(n),
             target |-> IF hit /\ sp.type = "symlink_out" THEN FsRoot
                        ELSE IF hit /\ sp.type = "symlink_in" THEN NodeA
                        ELSE NoPath,
             fault  |-> IF hit /\ sp.type \in {"oserror", "gone", "unlistable"} THEN sp.type
                        ELSE "none",
             \* the pattern lines of the root .gitignore
             lines  |-> IF n = GitIgnoreNode /\ gi # "none" THEN {gi} ELSE {}]]

\* The entries that can be the special one.
InRepo == {NodeA, NodeB, NodeC, NodeX, NodeY, NodeZ}

\* The specials a shape admits: one that replaces the entry by something that
\* is not a directory sits where the shape has a file.
Specials(ka, kc, kx, gi) ==
    {NoSpecial}
    \cup {[node |-> n, type |-> t] :
            n \in {m \in InRepo : BaseKind(m, ka, kc, kx, gi) = "file"},
            t \in {"symlink_out", "other", "gone"}}
    \cup {[node |-> n, type |-> t] :
            n \in {m \in InRepo : BaseKind(m, ka, kc, kx, gi) # "absent"},
            t \in {"dotgit", "oserror"}}
    \cup {[node |-> n, type |-> "oserror"] :
            n \in {m \in {Repo, GitIgnoreNode} : BaseKind(m, ka, kc, kx, gi) # "absent"}}
    \cup {[node |-> n, type |-> "unlistable"] :
            n \in {m \in InRepo : BaseKind(m, ka, kc, kx, gi) = "dir"}}
    \cup (IF kc = "file" /\ ka = "dir" THEN {[node |-> NodeC, type |-> "symlink_in"]} ELSE {})

FileKinds == {"file", "dir"}
\* The root has no .gitignore, or one whose only pattern line is "c".
GitIgnoreContents == {"none", "c"}

FileSystems ==
    UNION {{MkFS(t[1], t[2], t[3], t[4], sp) : sp \in Specials(t[1], t[2], t[3], t[4])} :
            t \in FileKinds \X FileKinds \X FileKinds \X GitIgnoreContents}


(***************************************************************************)
(* pathlib: resolve(), is_relative_to(), the stat-family tests.            *)
(***************************************************************************)
\* What a symbolic link names (a link of the model never names a link).
Follow(n) == IF fs[n].kind = "symlink" THEN fs[n].target ELSE n

\* The entry of directory d called s, as a set (empty when there is none).
Child(d, s) ==
    {c \in Nodes \ {FsRoot} : ParentOf(c) = d /\ fs[c].kind # "absent" /\ fs[c].name = s}

\* os.scandir(d): the entries of d, in listing order.
RECURSIVE EntriesFrom(_, _)
EntriesFrom(d, i) ==
    IF i > Len(NodeOrder) THEN <<>>
    ELSE LET c == NodeOrder[i]
         IN  IF c # FsRoot /\ ParentOf(c) = d /\ fs[c].kind # "absent"
             THEN <<c>> \o EntriesFrom(d, i + 1)
             ELSE EntriesFrom(d, i + 1)
Entries(d) == EntriesFrom(d, 1)

\* A resolved path: an existing node (links followed) and the number of
\* trailing components that do not exist below it.
Pos(n, k) == [node |-> n, extra |-> k]

\* os.path.realpath, one component further (strict=False).
ResolveStep(pos, seg) ==
    IF pos.extra > 0
    THEN IF seg = ".." THEN Pos(pos.node, pos.extra - 1) ELSE Pos(pos.node, pos.extra + 1)
    ELSE IF seg = ".." THEN Pos(ParentOf(pos.node), 0)
    ELSE LET cs == Child(pos.node, seg)
         IN  IF fs[pos.node].kind = "dir" /\ cs # {}
             THEN Pos(Follow(CHOOSE c \in cs : TRUE), 0)
             ELSE Pos(pos.node, 1)

\* Path.resolve() of start / segs.
RECURSIVE Resolve(_, _)
Resolve(pos, segs) ==
    IF segs = <<>> THEN pos ELSE Resolve(ResolveStep(pos, Head(segs)), Tail(segs))

\* The node a path names itself, its last component not followed (lstat), or
\* NoPath when nothing is there.
LNode(start, segs) ==
    IF segs = <<>> THEN start
    ELSE LET before == Resolve(Pos(start, 0), SubSeq(segs, 1, Len(segs) - 1))
             last == segs[Len(segs)]
         IN  IF before.extra > 0 \/ fs[before.node].kind # "dir" THEN NoPath
             ELSE IF last = ".." THEN ParentOf(before.node)
             ELSE LET cs == Child(before.node, last)
                  IN  IF cs # {} THEN CHOOSE c \in cs : TRUE ELSE NoPath

\* PurePath.is_relative_to on resolved paths: n is r or lies below it.
RECURSIVE IsUnder(_, _)
IsUnder(n, r) == n = r \/ (n # FsRoot /\ IsUnder(ParentOf(n), r))

\* The stat-family tests answer "true", "false" or "raise" (an OSError that
\* pathlib does not swallow).
Probe(m, kinds, follow) ==
    IF m = NoPath THEN "false"
    ELSE IF fs[m].fault = "oserror" THEN "raise"
    ELSE IF fs[IF follow THEN Follow(m) ELSE m].kind \in kinds THEN "true" ELSE "false"
is_symlink(m) == Probe(m, {"symlink"}, FALSE)
is_file(m) == Probe(m, {"file"}, TRUE)
is_dir(m) == Probe(m, {"dir"}, TRUE)
exists(m) == Probe(m, {"file", "dir", "other"}, TRUE)
\* Path.stat(): raises when the entry is not there or cannot be examined.
stat_raises(m) == m = NoPath \/ fs[m].fault \in {"oserror", "gone"}
st_size(m) == SizeOf(Follow(m))
\* Path.iterdir() of a directory without read permission raises.
iterdir_raises(m) == fs[m].fault = "unlistable"

\* The absolute path of a node.
RECURSIVE AbsPath(_)
AbsPath(n) == IF n = FsRoot THEN <<>> ELSE AbsPath(ParentOf(n)) \o <<fs[n].name>>
\* PurePath.relative_to: lexical, ValueError (ok = FALSE) when base is no prefix.
RelativeTo(path, base) ==
    IF Len(base) <= Len(path) /\ SubSeq(path, 1, Len(base)) = base
    THEN [ok |-> TRUE, path |-> SubSeq(path, Len(base) + 1, Len(path))]
    ELSE [ok |-> FALSE, path |-> <<>>]
\* PurePath.name: the last component ("" for the filesystem root).
PathName(path) == IF path = <<>> THEN "" ELSE path[Len(path)]


(***************************************************************************)
(* RepoStructureAnalyzer                                                   *)
(***************************************************************************)
DefaultIgnorePatterns == {".git", "__pycache__", "node_modules"}

\* _load_gitignore: the default patterns, then the lines of <root>/.gitignore
\* when it exists and is a file.  (Called only where both tests answer.)
LoadGitignore(root) ==
    LET g == LNode(root, <<".gitignore">>)
    IN  DefaultIgnorePatterns
        \cup (IF exists(g) = "true" /\ is_file(g) = "true" THEN fs[Follow(g)].lines ELSE {})

\* should_ignore: PathSpec.match_file.  Every pattern of the model is a plain
\* name, which gitignore matches against each component of the path.
should_ignore(patterns, path) == \E i \in 1..Len(path) : path[i] \in patterns

\* A containment test that compares the paths as written, without resolve().
IsSafePath_Unresolved(root, path) == RelativeTo(path, AbsPath(root)).ok

\* _is_safe_path: path.resolve().is_relative_to(repo_path.resolve()); path is
\* absolute and repo_path is a resolved directory.
IsSafePath(root, path) == IsUnder(Resolve(Pos(FsRoot, 0), path).node, root)

NoSize == 0 - 1
\* A Summary, or None (present = FALSE).  counted is not a field of the
\* source: it records which entries the counters counted.
Summary(file_count, dir_count, total_size, counted) ==
    [present |-> TRUE, file_count |-> file_count, dir_count |-> dir_count,
     total_size |-> total_size, counted |-> counted]
NoSummary ==
    [present |-> FALSE, file_count |-> 0, dir_count |-> 0, total_size |-> 0, counted |-> {}]
\* A FileStructure.  children = <<>> is None.  id, at, rel and depth are not
\* fields of the source: they are the node and the arguments (current_path,
\* relative_path, current_depth) of the call that built it.
FileStructure(id, at, rel, depth, path, type, size, children, summary) ==
    [id |-> id, at |-> at, rel |-> rel, depth |-> depth, path |-> path, type |-> type,
     size |-> size, children |-> children, summary |-> summary]
NoStructure == FileStructure(NoPath, <<>>, <<>>, 0, <<>>, "none", NoSize, <<>>, NoSummary)

\* What a call of get_structure gave: the exception it raised or the node it
\* returned.  touched tells whether it examined current_path (is_symlink, stat,
\* iterdir) on its way.
Raised(msg, touched) == [ok |-> FALSE, err |-> msg, node |-> NoStructure, touched |-> touched]
Returned(node) == [ok |-> TRUE, err |-> "", node |-> node, touched |-> TRUE]

\* The depth test off by one: a directory at the cap is listed too.
Expands_AtCap(current_depth, max_depth) == current_depth <= max_depth

\* line 141: the directory is listed only above the depth cap.
Expands(current_depth, max_depth) == current_depth < max_depth
\* line 146: the width cap.
CapReached(n_children) == n_children >= MAX_CHILDREN
\* line 174: the depth of the recursive call.
ChildDepth(current_depth) == current_depth + 1
\* The width test off by one: no summary when the cap is just reached.
AttachSummary_BeyondCap(current_depth, max_depth, n_children) ==
    current_depth >= max_depth \/ n_children > MAX_CHILDREN

\* line 190: when the node carries its summary.
AttachSummary(current_depth, max_depth, n_children) ==
    current_depth >= max_depth \/ n_children >= MAX_CHILDREN

\* The counting beyond the cap without its is_symlink tests: is_file and is_dir
\* follow links.
CountBeyondCap_FollowingLinks(acc, e, rel) ==
    LET seen == [id |-> e, rel |-> rel]
    IN  IF is_file(e) = "raise" THEN [acc EXCEPT !.stop = TRUE]
        ELSE IF is_file(e) = "true"
        THEN IF stat_raises(e)
             THEN [acc EXCEPT !.file_count = @ + 1, !.counted = @ \cup {seen}, !.stop = TRUE]
             ELSE [acc EXCEPT !.file_count = @ + 1, !.total_size = @ + st_size(e),
                              !.counted = @ \cup {seen}]
        ELSE IF is_dir(e) = "true"
        THEN [acc EXCEPT !.dir_count = @ + 1, !.counted = @ \cup {seen}]
        ELSE acc

\* lines 146-152: an entry met once the cap is reached.  Nothing here is inside
\* the per-entry try: an exception leaves the loop (stop).
CountBeyondCap(acc, e, rel) ==
    LET seen == [id |-> e, rel |-> rel]
    IN  IF is_file(e) = "raise" THEN [acc EXCEPT !.stop = TRUE]
        ELSE IF is_file(e) = "true" /\ is_symlink(e) = "false"
        THEN IF stat_raises(e)
             THEN [acc EXCEPT !.file_count = @ + 1, !.counted = @ \cup {seen}, !.stop = TRUE]
             ELSE [acc EXCEPT !.file_count = @ + 1, !.total_size = @ + st_size(e),
                              !.counted = @ \cup {seen}]
        ELSE IF is_dir(e) = "true" /\ is_symlink(e) = "false"
        THEN [acc EXCEPT !.dir_count = @ + 1, !.counted = @ \cup {seen}]
        ELSE acc

RECURSIVE get_structure(_, _, _, _, _)
RECURSIVE ExpandEntries(_, _, _, _, _, _, _)

\* lines 156-181: an entry met below the cap, inside the per-entry try.
ExpandEntry(an, acc, e, entry_relative_path, current_depth, max_depth) ==
    IF should_ignore(an.patterns, entry_relative_path) THEN acc
    ELSE IF is_symlink(e) # "false" THEN acc
    ELSE IF stat_raises(e) THEN acc
    ELSE LET counted ==
                 LET seen == [id |-> e, rel |-> entry_relative_path]
                 IN  IF is_file(e) = "true"
                     THEN [acc EXCEPT !.file_count = @ + 1, !.total_size = @ + st_size(e),
                                      !.counted = @ \cup {seen}]
                     ELSE IF is_dir(e) = "true"
                     THEN [acc EXCEPT !.dir_count = @ + 1, !.counted = @ \cup {seen}]
                     ELSE acc
             child == get_structure(an, AbsPath(an.repo_path) \o entry_relative_path,
                                    entry_relative_path, ChildDepth(current_depth), max_depth)
         IN  IF child.ok
             THEN [counted EXCEPT !.children = Append(@, child.node)]
             ELSE counted

\* lines 145-181: the loop over the listing of current_path.  Line 154
\* (entry.relative_to(self.repo_path)) is outside the per-entry try.
ExpandEntries(an, current_path, entries, i, acc, current_depth, max_depth) ==
    IF i > Len(entries) \/ acc.stop THEN acc
    ELSE LET e == entries[i]
             rel == RelativeTo(current_path \o <<fs[e].name>>, AbsPath(an.repo_path))
             next == IF CapReached(Len(acc.children)) THEN CountBeyondCap(acc, e, rel.path)
                     ELSE IF ~rel.ok THEN [acc EXCEPT !.stop = TRUE]
                     ELSE ExpandEntry(an, acc, e, rel.path, current_depth, max_depth)
         IN  ExpandEntries(an, current_path, entries, i + 1, next, current_depth, max_depth)

\* get_structure(current_path, relative_path, current_depth, max_depth);
\* current_path is an absolute path, as written (not resolved).
get_structure(an, current_path, relative_path, current_depth, max_depth) ==
    LET cur == LNode(FsRoot, current_path)
    IN  IF ~IsSafePath(an.repo_path, current_path) THEN Raised("Invalid path", FALSE)
        ELSE IF is_symlink(cur) = "raise" THEN Raised("OSError", TRUE)
        ELSE IF is_symlink(cur) = "true"
        THEN Raised("Symbolic links are not supported", TRUE)
        ELSE IF stat_raises(cur) THEN Raised("OSError", TRUE)
        ELSE IF relative_path # <<>> /\ should_ignore(an.patterns, relative_path)
        THEN Raised("is ignored", TRUE)
        ELSE LET rel_path == IF relative_path # <<>> THEN relative_path
                             ELSE <<PathName(current_path)>>
             IN  IF is_file(cur) = "true"
                 THEN Returned(FileStructure(cur, current_path, relative_path, current_depth,
                                             rel_path, "file", st_size(cur), <<>>, NoSummary))
                 ELSE IF is_dir(cur) = "true"
                 THEN LET acc0 == [children |-> <<>>, file_count |-> 0, dir_count |-> 0,
                                   total_size |-> 0, counted |-> {}, stop |-> FALSE]
                          acc == IF Expands(current_depth, max_depth) /\ ~iterdir_raises(cur)
                                 THEN ExpandEntries(an, current_path, Entries(cur), 1, acc0,
                                                    current_depth, max_depth)
                                 ELSE acc0
                      IN  Returned(FileStructure(
                              cur, current_path, relative_path, current_depth, rel_path,
                              "directory", NoSize, acc.children,
                              IF AttachSummary(current_depth, max_depth, Len(acc.children))
                              THEN Summary(acc.file_count, acc.dir_count, acc.total_size,
                                           acc.counted)
                              ELSE NoSummary))
                 ELSE Raised("Unsupported file type", TRUE)

(***************************************************************************)
(* FileReader                                                              *)
(***************************************************************************)
\* FileReader.read_file: the text of the result and, as file, the node whose
\* content it carries (NoPath when it carries none); touched tells whether the
\* call examined the target (exists, is_symlink, stat, open) on its way.
\* body is what the text carries after its header: the lines kept, the
\* truncation notice (the limit it names, NoNotice without one), the number
\* after "Total lines:", and the number of lines the file held (NoLines when no
\* file was read).
NoNotice == 0 - 1
NoLines == 0 - 1
NoBody == [lines |-> <<>>, notice |-> NoNotice, line_count |-> 0, of |-> NoLines]
Reply(msg, file) ==
    [msg |-> msg, file |-> file, body |-> NoBody,
     touched |-> msg # "Error: Attempted to access file outside repository"]
Untouched(msg) == [msg |-> msg, file |-> NoPath, body |-> NoBody, touched |-> FALSE]

\* What iterating a text file yields: line i carries the text i and, but
\* possibly for the last line, the newline that ends it.
Line(i, newline) == [text |-> i, newline |-> newline]
TextFile(n, final_newline) == [i \in 1..n |-> Line(i, i < n \/ final_newline)]
\* line.rstrip('\n')
rstrip(line) == line.text

\* line_count <= self.MAX_LINES, with the test one line short of it.
Keeps_OneShort(line_count) == line_count < MAX_LINES
\* line_count <= self.MAX_LINES
Keeps(line_count) == line_count <= MAX_LINES

\* The loop `for line in f`: st holds lines, line_count and truncated; the
\* loop ends when the file is exhausted or at the break.
RECURSIVE ReadLines(_, _)
ReadLines(f, st) ==
    IF st.line_count = Len(f) THEN st
    ELSE LET line_count == st.line_count + 1
         IN  IF Keeps(line_count)
             THEN ReadLines(f, [st EXCEPT !.lines = Append(@, rstrip(f[line_count])),
                                          !.line_count = line_count])
             ELSE [st EXCEPT !.line_count = line_count, !.truncated = TRUE]

\* The successful result: content is the lines kept joined by "\n", then the
\* notice when truncated.
FileContent(file, f) ==
    LET st == ReadLines(f, [lines |-> <<>>, line_count |-> 0, truncated |-> FALSE])
    IN  [msg |-> "File", file |-> file,
         body |-> [lines |-> st.lines,
                   notice |-> IF st.truncated THEN MAX_LINES ELSE NoNotice,
                   line_count |-> st.line_count,
                   of |-> Len(f)],
         touched |-> TRUE]

\* f is what the file holds when it is opened, if it is a text file.
FileReader_read_file(fr, file_path, f) ==
    LET full_path == AbsPath(fr.repo_path) \o file_path
        cur == LNode(FsRoot, full_path)
    IN  IF ~IsUnder(Resolve(Pos(FsRoot, 0), full_path).node, fr.repo_path)
        THEN Reply("Error: Attempted to access file outside repository", NoPath)
        ELSE IF exists(cur) = "raise" THEN Reply("Error reading file", NoPath)
        ELSE IF exists(cur) = "false" THEN Reply("File not found", NoPath)
        ELSE IF is_symlink(cur) = "true"
        THEN Reply("Error: Symbolic links are not supported", NoPath)
        ELSE IF stat_raises(cur) THEN Reply("Error reading file", NoPath)
        ELSE IF st_size(cur) > MAX_SIZE THEN Reply("File is too large", NoPath)
        ELSE IF fs[cur].kind # "file" THEN Reply("Error reading file", NoPath)
        ELSE IF IsBinary(cur) THEN Reply("Error: File appears to be a binary file", NoPath)
        ELSE FileContent(cur, f)

(***************************************************************************)
(* CodeAnalysisServer and the tools                                        *)
(***************************************************************************)
\* The process's working directory, against which resolve() reads a relative path.
Cwd == FsRoot

Unset == [set |-> FALSE, repo_path |-> NoPath, patterns |-> {}]
RepoStructureAnalyzer(root) == [set |-> TRUE, repo_path |-> root, patterns |-> LoadGitignore(root)]
FileReader(root) == [set |-> TRUE, repo_path |-> root, patterns |-> {}]

NoDepth == 0 - 1

\* What a tool call gave: the string it returned, or the exception that left it.
\* text, abs, arg and depth are the arguments of the call; touched tells whether
\* the call examined the path its argument names after resolving it.
Outcome(op, text, abs, arg, depth, raised, msg, tree, file, touched) ==
    [op |-> op, text |-> text, abs |-> abs, arg |-> arg, depth |-> depth,
     raised |-> raised, msg |-> msg, tree |-> tree, file |-> file, body |-> NoBody,
     touched |-> touched]

\* No call is being served.  The tools are coroutines without an await: the
\* event loop runs one call to its end before it takes the next.
Idle == Outcome("none", "path", FALSE, <<>>, NoDepth, FALSE, "", NoStructure, NoPath, FALSE)

\* CodeAnalysisServer.initialize_repo(path): the exception it raises ("" for
\* none) and the three fields afterwards.  text is the argument when it is one
\* of "", "." and "./", and "path" otherwise; abs tells whether it starts with "/".
InitStep(exc, rp, an, fr) == [exc |-> exc, repo_path |-> rp, analyzer |-> an, file_reader |-> fr]

initialize_repo(text, abs, segs) ==
    LET keep(exc) == InitStep(exc, repo_path, analyzer, file_reader)
        pos == Resolve(Pos(IF abs THEN FsRoot ELSE Cwd, 0), segs)
        rp == IF pos.extra = 0 THEN pos.node ELSE NoPath
        gitignore_path == IF rp = NoPath THEN NoPath ELSE LNode(rp, <<".gitignore">>)
    IN  IF text \in {"", ".", "./"} THEN keep("ValueError: must be an absolute path")
        ELSE IF exists(rp) = "raise" THEN keep("OSError")
        ELSE IF exists(rp) = "false" THEN keep("ValueError: does not exist")
        ELSE IF is_dir(rp) # "true" THEN keep("ValueError: is not a directory")
        \* line 416 has assigned self.repo_path when line 417 raises
        ELSE IF exists(gitignore_path) = "raise"
        THEN InitStep("OSError", rp, analyzer, file_reader)
        ELSE InitStep("", rp, RepoStructureAnalyzer(rp), FileReader(rp))

\* The tool initialize_repository catches ValueError only.
InitializeRepository(text, abs, segs) ==
    LET r == initialize_repo(text, abs, segs)
        out(raised, msg) ==
            Outcome("initialize_repository", text, abs, segs, NoDepth, raised, msg,
                    NoStructure, NoPath, text = "path")
    IN  /\ result = Idle
        /\ repo_path' = r.repo_path
        /\ analyzer' = r.analyzer
        /\ file_reader' = r.file_reader
        /\ result' = IF r.exc = "" THEN out(FALSE, "Successfully initialized code repository")
                     ELSE IF r.exc = "OSError" THEN out(TRUE, "OSError")
                     ELSE out(FALSE, "Error initializing code repository: " \o r.exc)
        /\ UNCHANGED fs

NotInitialized == "No code repository has been initialized yet"

\* The tool get_repo_info: no try at all.
GetRepoInfo ==
    LET out(raised, msg) ==
            Outcome("get_repo_info", "path", FALSE, <<>>, NoDepth, raised, msg, NoStructure,
                    NoPath, repo_path # NoPath)
    IN  /\ result = Idle
        /\ result' = IF repo_path = NoPath THEN out(FALSE, NotInitialized)
                     ELSE IF \/ exists(LNode(repo_path, <<".gitignore">>)) = "raise"
                             \/ exists(repo_path) = "raise"
                             \/ is_dir(repo_path) = "raise"
                     THEN out(TRUE, "OSError")
                     ELSE out(FALSE, "Code Repository Information")
        /\ UNCHANGED <<fs, repo_path, analyzer, file_reader>>

\* The tool get_repo_structure(sub_path, depth).  sub_path = <<>> is None (or
\* ""), depth = NoDepth is None.
get_repo_structure(sub_path, depth) ==
    LET out(msg, tree, touched) ==
            Outcome("get_repo_structure", "path", FALSE, sub_path, depth, FALSE, msg, tree,
                    NoPath, touched)
        target_path == AbsPath(repo_path) \o sub_path
        structure == get_structure(analyzer, target_path, sub_path, 0,
                                   IF depth = NoDepth THEN MAX_DEPTH ELSE depth)
    IN  IF repo_path = NoPath \/ ~analyzer.set THEN out(NotInitialized, NoStructure, FALSE)
        ELSE IF sub_path # <<>> /\ ~IsSafePath(analyzer.repo_path, target_path)
        THEN out("Error: Invalid path - directory traversal not allowed", NoStructure, FALSE)
        ELSE IF structure.ok THEN out("structure", structure.node, TRUE)
        ELSE out("Error analyzing repository structure: " \o structure.err, NoStructure,
                 structure.touched)

GetRepoStructure(sub_path, depth) ==
    /\ result = Idle
    /\ result' = get_repo_structure(sub_path, depth)
    /\ UNCHANGED <<fs, repo_path, analyzer, file_reader>>

\* The tool read_file(file_path).
read_file(file_path, f) ==
    LET out(r) ==
            [Outcome("read_file", "path", FALSE, file_path, NoDepth, FALSE, r.msg,
                     NoStructure, r.file, r.touched) EXCEPT !.body = r.body]
    IN  IF repo_path = NoPath \/ ~file_reader.set \/ ~analyzer.set
        THEN out(Untouched(NotInitialized))
        ELSE IF should_ignore(analyzer.patterns, file_path)
        THEN out(Untouched("File is ignored based on .gitignore patterns"))
        ELSE out(FileReader_read_file(file_reader, file_path, f))

ReadFile(file_path, f) ==
    /\ result = Idle
    /\ result' = read_file(file_path, f)
    /\ UNCHANGED <<fs, repo_path, analyzer, file_reader>>

(***************************************************************************)
(* The inputs and the specification                                        *)
(***************************************************************************)
\* The components a caller-supplied path is made of.
Segments == {"..", "a", "c", "out"}
RECURSIVE PathsUpTo(_)
PathsUpTo(n) ==
    IF n = 0 THEN {<<>>}
    ELSE LET shorter == PathsUpTo(n - 1)
         IN  shorter \cup {Append(p, s) : p \in shorter, s \in Segments}
Paths == PathsUpTo(MaxPathLen)
DepthArgs == {NoDepth} \cup 0..MaxDepthArg
\* What a text file can hold: up to two lines more than the limit, the last
\* line with or without its newline.
TextFiles ==
    {TextFile(n, final_newline) : n \in 0..(MAX_LINES + 2), final_newline \in BOOLEAN}

InitSegs == {<<"repo">>, <<"repo", "a">>, <<"out">>, <<"missing">>}

Init ==
    /\ fs \in FileSystems
    /\ repo_path = NoPath
    /\ analyzer = Unset
    /\ file_reader = Unset
    /\ result = Idle

\* The adapter sends the result of the call to the client.
Deliver ==
    /\ result # Idle
    /\ result' = Idle
    /\ UNCHANGED <<fs, repo_path, analyzer, file_reader>>

Next ==
    \/ \E text \in {"", ".", "./"} : InitializeRepository(text, FALSE, <<>>)
    \/ \E abs \in BOOLEAN, segs \in InitSegs : InitializeRepository("path", abs, segs)
    \/ GetRepoInfo
    \/ \E sub_path \in Paths, depth \in DepthArgs : GetRepoStructure(sub_path, depth)
    \/ \E file_path \in Paths, f \in TextFiles : ReadFile(file_path, f)
    \/ Deliver

Spec == Init /\ [][Next]_vars

(***************************************************************************)
(* Reading a result                                                        *)
(***************************************************************************)
\* The positions of the nodes of a tree: <<>> is the root, <<2, 1>> the first
\* child of the second child of the root.  The length of a position is the
\* level of its node below the root.
RECURSIVE Positions(_)
Positions(t) ==
    {<<>>} \cup UNION {{<<i>> \o q : q \in Positions(t.children[i])} : i \in 1..Len(t.children)}
RECURSIVE NodeAt(_, _)
NodeAt(t, p) == IF p = <<>> THEN t ELSE NodeAt(t.children[Head(p)], Tail(p))

StructureReturned == result.op = "get_repo_structure" /\ result.msg = "structure"
\* The positions of the returned tree, and the node at one of them.
ResultNodes == IF StructureReturned THEN Positions(result.tree) ELSE {}
Node(p) == NodeAt(result.tree, p)
\* The depth cap of the call whose result this is.
DepthCap == IF result.depth = NoDepth THEN MAX_DEPTH ELSE result.depth

ChildIds(n) == {n.children[i].id : i \in 1..Len(n.children)}
CountedIds(n) == {c.id : c \in n.summary.counted}
\* The path, relative to the analyzer's root, of entry e of the directory of node n.
EntryRel(n, e) == RelativeTo(n.at \o <<fs[e].name>>, AbsPath(analyzer.repo_path)).path
\* The entries of the directory of node n that are neither excluded nor links.
Qualifying(n) ==
    {Entries(n.id)[i] : i \in 1..Len(Entries(n.id))}
    \cap {e \in Nodes : /\ ~should_ignore(analyzer.patterns, EntryRel(n, e))
                        /\ fs[e].kind # "symlink"}
RECURSIVE SumSizes(_)
SumSizes(S) == IF S = {} THEN 0 ELSE LET e == CHOOSE x \in S : TRUE
                                     IN  SizeOf(e) + SumSizes(S \ {e})

\* C1: every directory that get_structure expands and that holds more than
\* MAX_CHILDREN entries that are neither excluded nor links has exactly
\* MAX_CHILDREN children, and the file_count + dir_count of its summary is the
\* number of those entries that are not among the children.
C1_RemainderInSummary ==
    \A p \in ResultNodes :
        (/\ Node(p).type = "directory"
         /\ Node(p).depth < DepthCap
         /\ Cardinality(Qualifying(Node(p))) > MAX_CHILDREN)
        => /\ Len(Node(p).children) = MAX_CHILDREN
           /\ Node(p).summary.present
           /\ Node(p).summary.file_count + Node(p).summary.dir_count
                = Cardinality(Qualifying(Node(p)) \ ChildIds(Node(p)))

\* C2: a path that should_ignore excludes is no node of a returned tree, is
\* counted in no summary (before or after the width cap), and read_file
\* answers it with the "ignored" message and no content.
C2_ExcludedNeverSeen ==
    /\ \A p \in ResultNodes :
          /\ Node(p).rel # <<>> => ~should_ignore(analyzer.patterns, Node(p).rel)
          /\ \A c \in Node(p).summary.counted : ~should_ignore(analyzer.patterns, c.rel)
    /\ (/\ result.op = "read_file"
        /\ result.msg # NotInitialized
        /\ should_ignore(analyzer.patterns, result.arg))
       => /\ result.msg = "File is ignored based on .gitignore patterns"
          /\ result.file = NoPath

\* C3 as claimed: no node has both children and a summary.
C3_NeverBoth ==
    \A p \in ResultNodes : ~(Node(p).children # <<>> /\ Node(p).summary.present)

\* C3 as amended: a node has both children and a summary exactly when it is a
\* directory whose number of children reached MAX_CHILDREN; every other node
\* has at most one of them, and a file has neither.
C3_BothOnlyAtWidthCap ==
    \A p \in ResultNodes :
        /\ (Node(p).children # <<>> /\ Node(p).summary.present)
              <=> (Node(p).type = "directory" /\ Len(Node(p).children) = MAX_CHILDREN)
        /\ Len(Node(p).children) <= MAX_CHILDREN
        /\ Node(p).type = "file" => Node(p).children = <<>> /\ ~Node(p).summary.present
C3_Witness ==
    /\ \E p \in ResultNodes : Node(p).children # <<>> /\ Node(p).summary.present
    /\ \E p \in ResultNodes : Node(p).children # <<>> /\ ~Node(p).summary.present
    /\ \E p \in ResultNodes : Node(p).type = "directory" /\ Node(p).children = <<>>

\* C4: with the root call at current_depth 0, no node of the result lies deeper
\* than the depth cap, every call that built a node ran at the level of the
\* node (the recursive call is made at current_depth + 1), and a directory at
\* exactly the depth cap has a summary and no children.
C4_DepthBounded ==
    \A p \in ResultNodes :
        /\ Len(p) <= DepthCap
        /\ Node(p).depth = Len(p)
        /\ (Node(p).type = "directory" /\ Len(p) = DepthCap)
              => Node(p).summary.present /\ Node(p).children = <<>>
C4_Witness ==
    /\ StructureReturned
    /\ \E p \in ResultNodes :
          /\ Len(p) = DepthCap
          /\ Len(p) > 0
          /\ Node(p).type = "directory"
          /\ Entries(Node(p).id) # <<>>

\* C5: a directory that is not expanded because current_depth >= max_depth has
\* a summary whose counters are those of its direct entries that are neither
\* excluded nor links.
C5_DepthSummaryCounts ==
    \A p \in ResultNodes :
        (Node(p).type = "directory" /\ Node(p).depth >= DepthCap)
        => LET q == Qualifying(Node(p))
               files == {e \in q : fs[e].kind = "file"}
               dirs == {e \in q : fs[e].kind = "dir"}
           IN  /\ Node(p).summary.present
               /\ Node(p).summary.file_count = Cardinality(files)
               /\ Node(p).summary.dir_count = Cardinality(dirs)
               /\ Node(p).summary.total_size = SumSizes(files)

\* root / segs, resolved, is not inside root.
EscapesRoot(root, segs) ==
    ~IsUnder(Resolve(Pos(FsRoot, 0), AbsPath(root) \o segs).node, root)
StructureCalled == result.op = "get_repo_structure" /\ result.msg # NotInitialized
ReadCalled == result.op = "read_file" /\ result.msg # NotInitialized
TraversalError == "Error: Invalid path - directory traversal not allowed"
OutsideError == "Error: Attempted to access file outside repository"
IgnoredMessage == "File is ignored based on .gitignore patterns"

\* C6 as claimed: a sub_path or file_path whose resolved form is not inside the
\* root makes get_repo_structure and read_file return the error that names the
\* escape, with no tree and no content, the target not having been examined.
C6_EscapeNamed ==
    /\ (StructureCalled /\ EscapesRoot(repo_path, result.arg))
       => /\ result.msg = TraversalError
          /\ result.tree = NoStructure
          /\ ~result.touched
    /\ (ReadCalled /\ EscapesRoot(file_reader.repo_path, result.arg))
       => /\ result.msg = OutsideError
          /\ result.file = NoPath
          /\ ~result.touched

\* C6 as amended: the same, except that read_file answers a path that
\* should_ignore excludes with the "ignored" message, escaping or not.
C6_EscapeRejected ==
    /\ (StructureCalled /\ EscapesRoot(repo_path, result.arg))
       => /\ result.msg = TraversalError
          /\ result.tree = NoStructure
          /\ ~result.touched
    /\ (ReadCalled /\ EscapesRoot(file_reader.repo_path, result.arg))
       => /\ result.msg = IF should_ignore(analyzer.patterns, result.arg)
                          THEN IgnoredMessage ELSE OutsideError
          /\ result.file = NoPath
          /\ ~result.touched
\* read_file rejects a path that leaves the root through a symbolic link to a
\* directory outside it and names a file that exists there.
C6_Witness ==
    /\ ReadCalled
    /\ result.msg = OutsideError
    /\ \E i \in 1..(Len(result.arg) - 1) :
          LET c == LNode(FsRoot, AbsPath(repo_path) \o SubSeq(result.arg, 1, i))
          IN  c # NoPath /\ fs[c].kind = "symlink"
    /\ Resolve(Pos(FsRoot, 0), AbsPath(repo_path) \o result.arg) = Pos(Out, 0)

\* The node the sub_path of the call names, its last component not followed.
Target == LNode(FsRoot, AbsPath(repo_path) \o result.arg)
TargetIsSymlink == Target # NoPath /\ fs[Target].kind = "symlink"
SymlinkError == "Error analyzing repository structure: Symbolic links are not supported"
HasSymlinkEntry(d) == \E i \in 1..Len(Entries(d)) : fs[Entries(d)[i]].kind = "symlink"
\* No symbolic link is a node of the tree or counted in a summary, and in a
\* listed directory that holds a link every plain entry that is not excluded
\* is a child or counted.
SymlinksSkipped ==
    \A p \in ResultNodes :
        /\ fs[Node(p).id].kind # "symlink"
        /\ \A c \in Node(p).summary.counted : fs[c.id].kind # "symlink"
        /\ (Node(p).type = "directory" /\ Node(p).depth < DepthCap /\ HasSymlinkEntry(Node(p).id))
           => \A e \in Qualifying(Node(p)) :
                 fs[e].kind \in {"file", "dir"}
                 => e \in ChildIds(Node(p)) \cup (IF Node(p).summary.present THEN CountedIds(Node(p))
                                              ELSE ChildIds(Node(p)))

\* C7 as claimed: no symbolic link is a node or counted; a link that is the
\* requested target fails the call with "Symbolic links are not supported"; a
\* link met as an entry is skipped and the other entries are still processed.
C7_SymlinkErrorAlways ==
    /\ SymlinksSkipped
    /\ (StructureCalled /\ TargetIsSymlink) => result.msg = SymlinkError

\* C7 as amended: the same, except that a requested link that resolves outside
\* the root fails the call with the directory-traversal error instead.
C7_SymlinkNeverTraversed ==
    /\ SymlinksSkipped
    /\ (StructureCalled /\ TargetIsSymlink)
       => /\ result.tree = NoStructure
          /\ result.msg = IF EscapesRoot(repo_path, result.arg)
                          THEN TraversalError ELSE SymlinkError
\* A listing with a link after the width cap and a counted entry after the link.
C7_Witness ==
    \E p \in ResultNodes :
        LET es == Entries(Node(p).id)
        IN  /\ Len(Node(p).children) = MAX_CHILDREN
            /\ \E i \in 1..Len(es) : \E j \in (i + 1)..Len(es) :
                  /\ fs[es[i]].kind = "symlink"
                  /\ es[j] \in CountedIds(Node(p)) \ ChildIds(Node(p))

\* processing entry e fails: its stat-family calls raise, or it is neither a
\* file nor a directory (the recursive call raises).
Failing(e) == fs[e].fault \in {"oserror", "gone"} \/ fs[e].kind = "other"
\* C8: in a directory that get_structure lists, an entry whose processing
\* fails, before or after the width cap, is only skipped: every later entry
\* that is a plain file or directory and not excluded is a child or counted.
C8_FailureSkipsOneEntry ==
    \A p \in ResultNodes :
        (Node(p).type = "directory" /\ Node(p).depth < DepthCap /\ fs[Node(p).id].fault = "none")
        => LET es == Entries(Node(p).id)
           IN  \A i \in 1..Len(es) : \A j \in (i + 1)..Len(es) :
                  (/\ Failing(es[i])
                   /\ es[j] \in Qualifying(Node(p))
                   /\ ~Failing(es[j]))
                  => es[j] \in ChildIds(Node(p)) \cup CountedIds(Node(p))

\* C9: every tool returns a string; no exception leaves a tool.
C9_NoExceptionEscapes == ~result.raised

InitSucceeded ==
    /\ result.op = "initialize_repository"
    /\ result.msg = "Successfully initialized code repository"
\* C10: initialize_repository succeeds only for an absolute path that names an
\* existing directory.
C10_OnlyAbsoluteDirectory ==
    InitSucceeded
    => /\ result.abs
       /\ LET pos == Resolve(Pos(FsRoot, 0), result.arg)
          IN  pos.extra = 0 /\ fs[pos.node].kind = "dir"

(***************************************************************************)
(* Reading a file                                                          *)
(***************************************************************************)
\* read_file returned the content of a text file.
ReadReturned == result.op = "read_file" /\ result.msg = "File"
Min(a, b) == IF a <= b THEN a ELSE b
\* The first k lines of a text file, without their newlines.
FirstLines(k) == [i \in 1..k |-> i]

\* C11: for a readable text file of n lines, the content is exactly the first
\* min(n, MAX_LINES) lines, and the truncation notice is there if and only if
\* n > MAX_LINES; it names MAX_LINES.
C11_TruncatesAfterMaxLines ==
    ReadReturned =>
        LET n == result.body.of
        IN  /\ result.body.lines = FirstLines(Min(n, MAX_LINES))
            /\ (result.body.notice # NoNotice) <=> (n > MAX_LINES)
            /\ result.body.notice \in {NoNotice, MAX_LINES}

\* A file one line over the limit was read: MAX_LINES lines and the notice.
C11_Witness ==
    /\ ReadReturned
    /\ result.body.of = MAX_LINES + 1
    /\ Len(result.body.lines) = MAX_LINES
    /\ result.body.notice = MAX_LINES

(***************************************************************************)
(* The session fields                                                      *)
(***************************************************************************)
session == <<repo_path, analyzer, file_reader>>
\* The three fields are all unset, or all bound to the same root.
SessionConsistent ==
    \/ repo_path = NoPath /\ ~analyzer.set /\ ~file_reader.set
    \/ /\ repo_path # NoPath
       /\ analyzer.set /\ analyzer.repo_path = repo_path
       /\ file_reader.set /\ file_reader.repo_path = repo_path
\* The call being answered is an initialize_repository that failed.
InitFailed == result.op = "initialize_repository" /\ ~InitSucceeded
\* The directory the argument of the initialize_repository being answered names.
InitRoot == Resolve(Pos(IF result.abs THEN FsRoot ELSE Cwd, 0), result.arg).node

\* C12: after every call the three session fields are all unset or all bound
\* to the same root; a successful initialize binds them to its root, a failing
\* initialize leaves them as they were, and get_repo_structure and read_file
\* never modify them.
C12_SessionFrame ==
    [][/\ SessionConsistent'
       /\ InitSucceeded' => repo_path' = InitRoot'
       /\ InitFailed' => UNCHANGED session
       /\ result'.op \in {"get_repo_structure", "read_file"} => UNCHANGED session]_vars

====
